---- MODULE Spec2Model ----
(***************************************************************************)
(* jobmonitor: register job templates, start at most one instance per job  *)
(* name through the zdaemon supervisor, query its status, stop it.         *)
(*                                                                         *)
(* Text is modelled as sequences of one-character strings, so that the     *)
(* substring test of get_latest_job_instance, os.path.splitext and the     *)
(* regular expression of extract_job_id are computed, not assumed.  The    *)
(* output of a supervisor command is a sequence of tokens: the markers the *)
(* code searches for, "pid=", decimal digits, and other text.              *)
(***************************************************************************)
EXTENDS Integers, Sequences, FiniteSets, TLC

VARIABLES
    templates,    \* JOB_TEMPLATES_DIR: file name -> content
    instances,    \* JOB_INSTANCES_DIR: file name -> [mtime, content]
    daemons,      \* the supervisor: config path of a running daemon -> pid
    transcripts,  \* TRANSCRIPT_DIR: log path -> number of lines written
    resp,         \* the response of the last completed request
    inflight,     \* worker -> the request it is in the middle of (SpecRace)
    probe         \* a function applied on its own: its input and its result

vars == <<templates, instances, daemons, transcripts, resp, inflight, probe>>

----------------------------------------------------------------------------
(* Bounds *)

\* os.urandom(6): the last byte ranges over 0..MaxByte, the others are 0
MaxByte == 2
\* the process id of the first daemon the supervisor launches
FirstPid == 11
\* a daemon appends LogChunk lines at a time, until MaxLogLines are written
MaxLogLines == 101
LogChunk == 101
\* every line of a transcript takes LineLen bytes, its line terminator included
LineLen == 64

(* Program constants *)

IdBytes == 6
NrLines == 100
TailWindow == 4096

----------------------------------------------------------------------------
(* Text *)

DotConf == <<".", "c", "o", "n", "f">>
DotLog == <<".", "l", "o", "g">>
Conf == <<"c", "o", "n", "f">>
HexChars == <<"0", "1", "2", "3", "4", "5", "6", "7", "8", "9", "a", "b", "c", "d", "e", "f">>
Digits == <<"0", "1", "2", "3", "4", "5", "6", "7", "8", "9">>

\* the value None, and the empty string: both are false in a Python condition
None == <<>>

\* Python "sub in s" on strings
Contains(sub, s) ==
    \E i \in 0..(Len(s) - Len(sub)) : SubSeq(s, i + 1, i + Len(sub)) = sub

SetMax(S) == CHOOSE x \in S : \A y \in S : y <= x

\* os.path.join(a, b) for a relative b
PathJoin(a, b) == a \o <<"/">> \o b

\* os.path.splitext: the extension starts at the last dot, leading dots aside
SplitExt(filename) ==
    LET dots == {k \in 2..Len(filename) :
                    /\ filename[k] = "."
                    /\ \E j \in 1..(k - 1) : filename[j] # "."}
    IN  IF dots = {}
        THEN <<filename, <<>>>>
        ELSE <<SubSeq(filename, 1, SetMax(dots) - 1),
               SubSeq(filename, SetMax(dots), Len(filename))>>

\* binascii.b2a_hex: two hexadecimal characters per byte, high nibble first
B2aHex(bytes) ==
    [i \in 1..(2 * Len(bytes)) |->
        LET b == bytes[(i + 1) \div 2]
        IN  HexChars[(IF i % 2 = 1 THEN b \div 16 ELSE b % 16) + 1]]

\* "%d" % n for n >= 0
RECURSIVE FormatInt(_)
FormatInt(n) ==
    IF n < 10 THEN <<Digits[n + 1]>>
    ELSE FormatInt(n \div 10) \o <<Digits[(n % 10) + 1]>>

IsDigit(t) == \E d \in 1..10 : Digits[d] = t

DigitValue(t) == (CHOOSE d \in 1..10 : Digits[d] = t) - 1

\* int(s) for a string of decimal digits
RECURSIVE ParseInt(_)
ParseInt(s) ==
    IF Len(s) = 0 THEN 0
    ELSE 10 * ParseInt(SubSeq(s, 1, Len(s) - 1)) + DigitValue(s[Len(s)])

----------------------------------------------------------------------------
(* Configuration *)

TRANSCRIPT_DIR == <<"/", "t", "m", "p">>
JOB_TEMPLATES_DIR == <<"t", "e", "m", "p", "l", "a", "t", "e", "s">>
\* os.path.abspath(JOB_INSTANCES_DIR) with the working directory /
AbsInstancesDir == <<"/", "i", "n", "s", "t", "a", "n", "c", "e", "s">>

\* the job names of the requests: the first is a substring of the second
JobNames == {<<"j">>, <<"j", "2">>}

----------------------------------------------------------------------------
(* Names and paths *)

get_job_template_filename(job_name) == job_name \o DotConf

get_job_template_filepath(job_name) ==
    PathJoin(JOB_TEMPLATES_DIR, get_job_template_filename(job_name))

\* os.urandom(IdBytes), within the bound
RandomBytes ==
    {[i \in 1..IdBytes |-> IF i = IdBytes THEN b ELSE 0] : b \in 0..MaxByte}

\* the values create_job_id can return
JobIds == {B2aHex(bytes) : bytes \in RandomBytes}

get_job_instance(job_name, job_id) == job_name \o <<"_">> \o job_id

get_job_instance_filename(job_name, job_id) ==
    get_job_instance(job_name, job_id) \o DotConf

get_job_instance_logname(job_name, job_id) ==
    get_job_instance(job_name, job_id) \o DotLog

get_job_instance_logpath(job_name, job_id) ==
    PathJoin(TRANSCRIPT_DIR, get_job_instance_logname(job_name, job_id))

get_job_instance_filepath(job_name, job_id) ==
    PathJoin(AbsInstancesDir, get_job_instance_filename(job_name, job_id))

\* re.search(r'.+_(.+).conf', filepath): the first .+ is greedy, so the match
\* uses the last underscore after which ".conf"-like text still follows
ExtractUnderscores(filepath) ==
    {u \in 2..Len(filepath) :
        /\ filepath[u] = "_"
        /\ \E e \in (u + 1)..(Len(filepath) - 5) :
              SubSeq(filepath, e + 2, e + 5) = Conf}

ExtractMatches(filepath) == ExtractUnderscores(filepath) # {}

extract_job_id(filepath) ==
    LET u == SetMax(ExtractUnderscores(filepath))
        e == SetMax({x \in (u + 1)..(Len(filepath) - 5) :
                        SubSeq(filepath, x + 2, x + 5) = Conf})
    IN  SubSeq(filepath, u + 1, e)

----------------------------------------------------------------------------
(* The supervisor's command results, as fabric's run() returns them *)

CmdResult(return_code, output) == [return_code |-> return_code, output |-> output]

\* cmd_result.succeeded: the command's return code is 0
Succeeded(cmd_result) == cmd_result.return_code = 0

\* "marker" in cmd_result
HasMarker(marker, cmd_result) ==
    \E i \in 1..Len(cmd_result.output) : cmd_result.output[i] = marker

\* re.search(r'pid=(\d+)', cmd_string): the leftmost "pid=" that a digit
\* follows, with all the digits after it
PidMatches(output) ==
    {i \in 1..(Len(output) - 1) : output[i] = "pid=" /\ IsDigit(output[i + 1])}

extract_process_id(output) ==
    IF PidMatches(output) = {}
    THEN -1
    ELSE LET i == CHOOSE x \in PidMatches(output) : \A y \in PidMatches(output) : x <= y
             last == SetMax({e \in (i + 1)..Len(output) :
                                \A k \in (i + 1)..e : IsDigit(output[k])})
         IN  ParseInt(SubSeq(output, i + 1, last))

\* get_job_status without the marker test: active whenever the command succeeded
get_job_status_exit_only(cmd_result) ==
    <<Succeeded(cmd_result),
      IF Succeeded(cmd_result) THEN extract_process_id(cmd_result.output) ELSE -1>>

\* get_job_status without the success test: active whenever the marker is there
get_job_status_marker_only(cmd_result) ==
    LET job_active == HasMarker("program running", cmd_result)
    IN  <<job_active, IF job_active THEN extract_process_id(cmd_result.output) ELSE -1>>

\* get_job_status, from the result of the status command: <<job_active, job_process_id>>
get_job_status(cmd_result) ==
    LET job_active == Succeeded(cmd_result) /\ HasMarker("program running", cmd_result)
    IN  <<job_active, IF job_active THEN extract_process_id(cmd_result.output) ELSE -1>>

\* zdaemon status: what the supervisor answers for a config path
StatusResults(path) ==
    IF path \in DOMAIN daemons
    THEN {CmdResult(0, <<"program running", "pid=">> \o FormatInt(daemons[path]))}
    ELSE {CmdResult(3, <<"daemon manager not running">>),
          CmdResult(0, <<"daemon manager not running">>)}

\* the operating system numbers processes upwards: every launch follows the
\* creation of an instance file, so the count of files tells launches apart
NextPid == FirstPid + Cardinality(DOMAIN instances)

\* zdaemon start: the result and the pid of the daemon launched (0: none)
StartResults ==
    {<<CmdResult(0, <<"daemon process started", "pid=">> \o FormatInt(NextPid)), NextPid>>,
     <<CmdResult(1, <<"error">>), 0>>,
     <<CmdResult(0, <<"daemon manager not running">>), 0>>,
     <<CmdResult(1, <<"daemon process started">>), 0>>}

\* zdaemon stop: the result and whether the daemon is gone
StopResults ==
    {<<CmdResult(0, <<"daemon process stopped">>), TRUE>>,
     <<CmdResult(1, <<"error">>), FALSE>>,
     <<CmdResult(0, <<"daemon process not running">>), TRUE>>,
     <<CmdResult(1, <<"daemon process stopped">>), TRUE>>}

----------------------------------------------------------------------------
(* The instance registry *)

\* the filter of get_latest_job_instance without the test of the extension
MatchingAnyExtension(job_name) ==
    {f \in DOMAIN instances : Contains(job_name, SplitExt(f)[1])}

\* os.listdir filtered as get_latest_job_instance filters it
MatchingInstances(job_name) ==
    {f \in DOMAIN instances :
        /\ Contains(job_name, SplitExt(f)[1])
        /\ SplitExt(f)[2] = DotConf}

\* get_latest_job_instance sorting without reverse=True: the oldest match
get_oldest_job_instance(job_name) ==
    LET inst_files == MatchingInstances(job_name)
    IN  IF inst_files = {}
        THEN None
        ELSE PathJoin(AbsInstancesDir,
                 CHOOSE f \in inst_files :
                     \A g \in inst_files : instances[f].mtime <= instances[g].mtime)

\* the full path of the matching file with the greatest mtime, or None
get_latest_job_instance(job_name) ==
    LET inst_files == MatchingInstances(job_name)
    IN  IF inst_files = {}
        THEN None
        ELSE PathJoin(AbsInstancesDir,
                 CHOOSE f \in inst_files :
                     \A g \in inst_files : instances[g].mtime <= instances[f].mtime)

\* exists_job_template testing the template directory, not the file
exists_any_job_template(job_name) == DOMAIN templates # {}

exists_job_template(job_name) ==
    get_job_template_filename(job_name) \in DOMAIN templates

exists_job_instance(job_name, job_id) ==
    get_job_instance_filename(job_name, job_id) \in DOMAIN instances

\* str.replace(old, new): every non-overlapping occurrence, left to right
RECURSIVE Replace(_, _, _)
Replace(s, old, new) ==
    IF Len(s) < Len(old) \/ Len(old) = 0 THEN s
    ELSE IF SubSeq(s, 1, Len(old)) = old
         THEN new \o Replace(SubSeq(s, Len(old) + 1, Len(s)), old, new)
         ELSE <<s[1]>> \o Replace(Tail(s), old, new)

TranscriptKey == <<"t", "r", "a", "n", "s", "c", "r", "i", "p", "t", "_", "f", "i", "l", "e">>

\* params['transcript_file'] = get_job_instance_logpath(job_name, job_id)
WithTranscript(params, job_name, job_id) ==
    [k \in DOMAIN params \cup {TranscriptKey} |->
        IF k = TranscriptKey
        THEN get_job_instance_logpath(job_name, job_id)
        ELSE params[k]]

\* for (key, value) in params.items(): line = line.replace('$' + key, value)
RECURSIVE RenderLine(_, _, _)
RenderLine(line, params, keys) ==
    IF keys = {} THEN line
    ELSE LET key == CHOOSE k \in keys : TRUE
         IN  RenderLine(Replace(line, <<"$">> \o key, params[key]), params, keys \ {key})

Render(content, params) ==
    [i \in 1..Len(content) |-> RenderLine(content[i], params, DOMAIN params)]

\* the mtime of a file written now: later than every mtime in the directory
NextMtime == SetMax({0} \cup {instances[f].mtime : f \in DOMAIN instances}) + 1

\* create_jobconf writing every instance of a job name under one id
create_jobconf_one_id(job_id, job_name, params) ==
    LET one == B2aHex([i \in 1..IdBytes |-> 0])
        f == get_job_instance_filename(job_name, one)
        content ==
            IF exists_job_template(job_name)
            THEN Render(templates[get_job_template_filename(job_name)],
                        WithTranscript(params, job_name, one))
            ELSE <<>>
    IN  [g \in DOMAIN instances \cup {f} |->
            IF g = f THEN [mtime |-> NextMtime, content |-> content] ELSE instances[g]]

\* the instance directory after create_jobconf: the file is created empty when
\* it is opened, and filled only if the template can be read
create_jobconf(job_id, job_name, params) ==
    LET f == get_job_instance_filename(job_name, job_id)
        content ==
            IF exists_job_template(job_name)
            THEN Render(templates[get_job_template_filename(job_name)],
                        WithTranscript(params, job_name, job_id))
            ELSE <<>>
    IN  [g \in DOMAIN instances \cup {f} |->
            IF g = f THEN [mtime |-> NextMtime, content |-> content] ELSE instances[g]]

----------------------------------------------------------------------------
(* The log tailer *)

Max(a, b) == IF a >= b THEN a ELSE b

\* fh.tell() right after open(filepath, 'r'): the position is the file's start
TellAfterOpen == 0

\* fh.read().splitlines() from a byte position: each line is named by the
\* byte offset of its first character that was read
ReadLinesFrom(filepath, pos) ==
    LET n == transcripts[filepath]
        first == pos \div LineLen
    IN  [k \in 1..Max(n - first, 0) |->
            IF k = 1 THEN pos ELSE (first + k - 1) * LineLen]

\* lines[-nr_lines:]
LastLines(lines, nr_lines) ==
    SubSeq(lines, Max(Len(lines) - nr_lines + 1, 1), Len(lines))

\* get_last_lines without the [-nr_lines:] slice
get_all_lines(filepath, nr_lines) ==
    IF filepath \in DOMAIN transcripts
    THEN ReadLinesFrom(filepath, 0)
    ELSE <<>>

get_last_lines(filepath, nr_lines) ==
    IF filepath \in DOMAIN transcripts
    THEN LET file_size == TellAfterOpen
         IN  LastLines(ReadLinesFrom(filepath, Max(file_size - TailWindow, 0)), nr_lines)
    ELSE <<>>

----------------------------------------------------------------------------
(* Requests and responses *)

Workers == {1, 2}

Idle == [pc |-> "idle"]

\* request.data of a registration
TemplateBodies ==
    {<< <<"r", " ", "$", "x">>, <<"l", " ", "$">> \o TranscriptKey >>}

\* request.json['parameters']
ParamInputs == {[k \in {<<"x">>} |-> <<"5">>]}

ContentTypes == {"application/json", "text/plain"}

\* a supervisor command a handler ran, and the result run() returned
Cmd(cmd, path, result) == [cmd |-> cmd, path |-> path, result |-> result]

\* a response: the HTTP status code, the keys of the JSON body and the values
\* under them, the Link header, and the supervisor commands the handler ran
Response(op, job_name, job_id, code, cmds) ==
    [op |-> op, job_name |-> job_name, job_id |-> job_id, code |-> code,
     keys |-> {}, status |-> "", body_job_id |-> None, pid |-> -1,
     log_lines |-> <<>>, ok |-> FALSE, exit_code |-> 0, link |-> None,
     cmds |-> cmds]

\* the handler raised: Flask answers 500 without a JSON body
Exception(op, job_name, job_id, cmds) == Response(op, job_name, job_id, 500, cmds)

NoResponse == Response("none", None, None, 0, <<>>)

\* no function is being applied on its own
NoProbe == [fn |-> "none", input |-> <<>>, done |-> FALSE, output |-> <<>>]

\* the server has sent the last response and takes the next request
Ready == resp = NoResponse

Init ==
    /\ templates = [f \in {} |-> <<>>]
    /\ instances = [f \in {} |-> <<>>]
    /\ daemons = [p \in {} |-> 0]
    /\ transcripts = [p \in {} |-> 0]
    /\ resp = NoResponse
    /\ inflight = [w \in Workers |-> Idle]
    /\ probe = NoProbe

\* response_job_status
response_job_status(op, req_id, job_name, job_active, job_id, job_process_id, cmds) ==
    LET log_lines == get_last_lines(get_job_instance_logpath(job_name, job_id), NrLines)
    IN  IF job_active
        THEN [Response(op, job_name, req_id, 200, cmds) EXCEPT
                 !.keys = {"status", "job_id", "log_lines", "message"},
                 !.status = "RUNNING", !.body_job_id = job_id,
                 !.log_lines = log_lines, !.pid = job_process_id]
        ELSE [Response(op, job_name, req_id, 200, cmds) EXCEPT
                 !.keys = {"status", "log_lines", "result"},
                 !.status = "FINISHED", !.log_lines = log_lines, !.ok = TRUE]

\* get_current_job looking for the template first: 404 without one
get_current_job_template_first(job_name) ==
    /\ Ready
    /\ resp' = [Response("query", job_name, None,
                         IF exists_job_template(job_name) THEN 200 ELSE 404, <<>>)
                   EXCEPT !.keys = {"message"}]
    /\ UNCHANGED <<templates, instances, daemons, transcripts, inflight, probe>>

\* get_current_job: the responses it can return, one for every answer the
\* supervisor can give to the status command
QueryResponses(job_name) ==
    LET latest_job_filepath == get_latest_job_instance(job_name)
    IN  IF latest_job_filepath # None
        THEN {LET st == get_job_status(r)
                  cmds == <<Cmd("status", latest_job_filepath, r)>>
              IN  IF ExtractMatches(latest_job_filepath)
                  THEN response_job_status("query", None, job_name, st[1],
                           extract_job_id(latest_job_filepath), st[2], cmds)
                  ELSE Exception("query", job_name, None, cmds) :
              r \in StatusResults(latest_job_filepath)}
        ELSE {IF exists_job_template(job_name)
              THEN [Response("query", job_name, None, 200, <<>>) EXCEPT
                       !.keys = {"message"}]
              ELSE [Response("query", job_name, None, 404, <<>>) EXCEPT
                       !.keys = {"message"}]}

\* GET /jobs/<job_name>
get_current_job(job_name) ==
    /\ Ready
    /\ resp' \in QueryResponses(job_name)
    /\ UNCHANGED <<templates, instances, daemons, transcripts, inflight, probe>>

\* GET /jobs/<job_name>/<job_id>
get_job_by_id(job_name, job_id) ==
    /\ Ready
    /\ IF ~exists_job_instance(job_name, job_id)
       THEN resp' = [Response("query_id", job_name, job_id, 404, <<>>) EXCEPT
                        !.keys = {"message"}]
       ELSE LET job_fullpath == get_job_instance_filepath(job_name, job_id)
            IN  \E r \in StatusResults(job_fullpath) :
                  LET st == get_job_status(r)
                  IN  resp' = response_job_status("query_id", job_id, job_name, st[1],
                                  job_id, st[2], <<Cmd("status", job_fullpath, r)>>)
    /\ UNCHANGED <<templates, instances, daemons, transcripts, inflight, probe>>

\* save_job_template: the template directory with the file written
save_job_template(job_name, data) ==
    [f \in DOMAIN templates \cup {get_job_template_filename(job_name)} |->
        IF f = get_job_template_filename(job_name) THEN data ELSE templates[f]]

\* remove_job_template: the template directory without the file
remove_job_template(job_name) ==
    [f \in DOMAIN templates \ {get_job_template_filename(job_name)} |-> templates[f]]

\* POST /jobs/<job_name>
create_job(job_name, data) ==
    /\ Ready
    /\ IF exists_job_template(job_name)
       THEN /\ resp' = [Response("register", job_name, None, 303, <<>>) EXCEPT
                           !.keys = {"message"}, !.link = <<job_name>>]
            /\ UNCHANGED templates
       ELSE /\ templates' = save_job_template(job_name, data)
            /\ resp' = [Response("register", job_name, None, 201, <<>>) EXCEPT
                           !.link = <<job_name>>]
    /\ UNCHANGED <<instances, daemons, transcripts, inflight, probe>>

\* DELETE /jobs/<job_name>
delete_job(job_name) ==
    /\ Ready
    /\ IF exists_job_template(job_name)
       THEN /\ templates' = remove_job_template(job_name)
            /\ resp' = Response("delete", job_name, None, 200, <<>>)
       ELSE /\ resp' = [Response("delete", job_name, None, 404, <<>>) EXCEPT
                           !.keys = {"message"}]
            /\ UNCHANGED templates
    /\ UNCHANGED <<instances, daemons, transcripts, inflight, probe>>

\* the random ids no instance file carries yet
UnusedBytes ==
    {bytes \in RandomBytes : \A n \in JobNames : ~exists_job_instance(n, B2aHex(bytes))}

\* create_job_id returns a fresh id; fresh ids are interchangeable, so the
\* model draws the one with the least random value
FreshIds ==
    {B2aHex(bytes) : bytes \in
        {b \in UnusedBytes : \A c \in UnusedBytes : b[IdBytes] <= c[IdBytes]}}

\* the supervisor after a start command for path launched pid (0: nothing)
Launched(path, pid) ==
    IF pid = 0
    THEN daemons
    ELSE [p \in DOMAIN daemons \cup {path} |-> IF p = path THEN pid ELSE daemons[p]]

\* the supervisor without the daemon of path
Gone(path) == [p \in DOMAIN daemons \ {path} |-> daemons[p]]

\* StartResponse naming a failed start ERROR, as stop_job_instance names a
\* failed stop
StartResponseError(job_name, job_id, cmd_result, cmds) ==
    IF Succeeded(cmd_result) /\ HasMarker("daemon process started", cmd_result)
    THEN [Response("start", job_name, None, 201, cmds) EXCEPT
             !.keys = {"status", "message"}, !.status = "STARTED",
             !.pid = extract_process_id(cmd_result.output),
             !.link = <<job_name, job_id>>]
    ELSE [Response("start", job_name, None, 500, cmds) EXCEPT
             !.keys = {"status", "result"}, !.status = "ERROR", !.ok = FALSE,
             !.exit_code = cmd_result.return_code]

\* StartResponse without the marker test: STARTED whenever the command succeeded
StartResponseExitOnly(job_name, job_id, cmd_result, cmds) ==
    IF Succeeded(cmd_result)
    THEN [Response("start", job_name, None, 201, cmds) EXCEPT
             !.keys = {"status", "message"}, !.status = "STARTED",
             !.pid = extract_process_id(cmd_result.output),
             !.link = <<job_name, job_id>>]
    ELSE [Response("start", job_name, None, 500, cmds) EXCEPT
             !.keys = {"status", "result"}, !.status = "FINISHED", !.ok = FALSE,
             !.exit_code = cmd_result.return_code]

\* start_job_instance, "construct response": from the start command's result
StartResponse(job_name, job_id, cmd_result, cmds) ==
    IF Succeeded(cmd_result) /\ HasMarker("daemon process started", cmd_result)
    THEN [Response("start", job_name, None, 201, cmds) EXCEPT
             !.keys = {"status", "message"}, !.status = "STARTED",
             !.pid = extract_process_id(cmd_result.output),
             !.link = <<job_name, job_id>>]
    ELSE [Response("start", job_name, None, 500, cmds) EXCEPT
             !.keys = {"status", "result"}, !.status = "FINISHED", !.ok = FALSE,
             !.exit_code = cmd_result.return_code]

\* start_job_instance from "if job_active:" on, given what the check found
StartFinish(job_name, json_params, latest_job_filepath, job_active, job_process_id, cmds) ==
    IF job_active
    THEN /\ resp' = IF ExtractMatches(latest_job_filepath)
                    THEN [Response("start", job_name, None, 303, cmds) EXCEPT
                             !.keys = {"status", "message"}, !.status = "RUNNING",
                             !.pid = job_process_id,
                             !.link = <<job_name, extract_job_id(latest_job_filepath)>>]
                    ELSE Exception("start", job_name, None, cmds)
         /\ UNCHANGED <<instances, daemons>>
    ELSE \E job_id \in FreshIds :
           LET job_filepath == get_job_instance_filepath(job_name, job_id)
           IN  /\ instances' = create_jobconf(job_id, job_name, json_params)
               /\ IF ~exists_job_template(job_name)
                  THEN /\ resp' = Exception("start", job_name, None, cmds)
                       /\ UNCHANGED daemons
                  ELSE \E sr \in StartResults :
                         /\ daemons' = Launched(job_filepath, sr[2])
                         /\ resp' = StartResponse(job_name, job_id, sr[1],
                                        Append(cmds, Cmd("start", job_filepath, sr[1])))

\* POST /jobs/<job_name>/start, handled without interruption
start_job_instance(job_name, content_type, json_params) ==
    /\ Ready
    /\ IF content_type # "application/json"
       THEN /\ resp' = Response("start", job_name, None, 415, <<>>)
            /\ UNCHANGED <<instances, daemons>>
       ELSE LET latest_job_filepath == get_latest_job_instance(job_name)
            IN  IF latest_job_filepath # None
                THEN \E r \in StatusResults(latest_job_filepath) :
                       StartFinish(job_name, json_params, latest_job_filepath,
                                   get_job_status(r)[1], get_job_status(r)[2],
                                   <<Cmd("status", latest_job_filepath, r)>>)
                ELSE StartFinish(job_name, json_params, latest_job_filepath,
                                 FALSE, -1, <<>>)
    /\ UNCHANGED <<templates, transcripts, inflight, probe>>

\* StopResponse without the marker test: FINISHED whenever the command succeeded
StopResponseExitOnly(job_name, job_id, job_process_id, cmd_result, cmds) ==
    IF Succeeded(cmd_result)
    THEN [Response("stop", job_name, job_id, 200, cmds) EXCEPT
             !.keys = {"status", "result"}, !.status = "FINISHED", !.ok = TRUE,
             !.pid = job_process_id]
    ELSE [Response("stop", job_name, job_id, 500, cmds) EXCEPT
             !.keys = {"status", "result"}, !.status = "ERROR", !.ok = FALSE]

\* stop_job_instance, the response from the stop command's result
StopResponse(job_name, job_id, job_process_id, cmd_result, cmds) ==
    IF Succeeded(cmd_result) /\ HasMarker("daemon process stopped", cmd_result)
    THEN [Response("stop", job_name, job_id, 200, cmds) EXCEPT
             !.keys = {"status", "result"}, !.status = "FINISHED", !.ok = TRUE,
             !.pid = job_process_id]
    ELSE [Response("stop", job_name, job_id, 500, cmds) EXCEPT
             !.keys = {"status", "result"}, !.status = "ERROR", !.ok = FALSE]

\* POST /jobs/<job_name>/<job_id>/stop
stop_job_instance(job_name, job_id) ==
    /\ Ready
    /\ IF ~exists_job_instance(job_name, job_id)
       THEN /\ resp' = Response("stop", job_name, job_id, 404, <<>>)
            /\ UNCHANGED daemons
       ELSE LET job_fullpath == get_job_instance_filepath(job_name, job_id)
            IN  \E r \in StatusResults(job_fullpath) :
                  LET status_cmd == <<Cmd("status", job_fullpath, r)>>
                  IN  IF ~get_job_status(r)[1]
                      THEN /\ resp' = [Response("stop", job_name, job_id, 403, status_cmd)
                                          EXCEPT !.keys = {"status", "message"},
                                                 !.status = "FINISHED"]
                           /\ UNCHANGED daemons
                      ELSE \E sr \in StopResults :
                             /\ daemons' = IF sr[2] THEN Gone(job_fullpath) ELSE daemons
                             /\ resp' = StopResponse(job_name, job_id, get_job_status(r)[2],
                                            sr[1], Append(status_cmd,
                                                      Cmd("stop", job_fullpath, sr[1])))
    /\ UNCHANGED <<templates, instances, transcripts, inflight, probe>>

----------------------------------------------------------------------------
(* The daemons *)

\* the transcript a daemon writes: the log path its rendered config names
TranscriptsOf(path) ==
    {l \in {get_job_instance_logpath(n, id) : n \in JobNames, id \in JobIds} :
        \E f \in DOMAIN instances :
            /\ PathJoin(AbsInstancesDir, f) = path
            /\ \E i \in 1..Len(instances[f].content) :
                  Contains(l, instances[f].content[i])}

\* a running daemon ends by itself
DaemonExits(path) ==
    /\ Ready
    /\ path \in DOMAIN daemons
    /\ daemons' = Gone(path)
    /\ UNCHANGED <<templates, instances, transcripts, resp, inflight, probe>>

\* a running daemon appends LogChunk lines to its transcript
DaemonWrites(path) ==
    /\ Ready
    /\ path \in DOMAIN daemons
    /\ \E l \in TranscriptsOf(path) :
         LET n == IF l \in DOMAIN transcripts THEN transcripts[l] ELSE 0
         IN  /\ n < MaxLogLines
             /\ transcripts' = [p \in DOMAIN transcripts \cup {l} |->
                                   IF p = l THEN n + LogChunk ELSE transcripts[p]]
    /\ UNCHANGED <<templates, instances, daemons, resp, inflight, probe>>

----------------------------------------------------------------------------
(* Requests handled one at a time *)

\* the response is sent to the client; only then is the next request taken
Reply ==
    /\ ~Ready
    /\ resp' = NoResponse
    /\ UNCHANGED <<templates, instances, daemons, transcripts, inflight, probe>>

Next ==
    \/ \E job_name \in JobNames, data \in TemplateBodies : create_job(job_name, data)
    \/ \E job_name \in JobNames : delete_job(job_name)
    \/ \E job_name \in JobNames : get_current_job(job_name)
    \/ \E job_name \in JobNames, job_id \in JobIds : get_job_by_id(job_name, job_id)
    \/ \E job_name \in JobNames, ct \in ContentTypes, params \in ParamInputs :
         start_job_instance(job_name, ct, params)
    \/ \E job_name \in JobNames, job_id \in JobIds : stop_job_instance(job_name, job_id)
    \/ \E path \in DOMAIN daemons : DaemonExits(path)
    \/ \E path \in DOMAIN daemons : DaemonWrites(path)
    \/ Reply

Spec == Init /\ [][Next]_vars

----------------------------------------------------------------------------
(* Two workers handling start requests at the same time: a handler's status
   check and what it does after it are separate steps *)

\* the job name the concurrent start requests are for
RaceJobNames == {<<"j">>}

\* start_job_instance up to "if job_active:": the worker has looked up the
\* latest instance and asked the supervisor for its status
StartCheck(w, job_name, json_params) ==
    /\ inflight[w] = Idle
    /\ LET latest_job_filepath == get_latest_job_instance(job_name)
           Checked(job_active, job_process_id, cmds) ==
               [pc |-> "checked", job_name |-> job_name, json_params |-> json_params,
                latest_job_filepath |-> latest_job_filepath,
                job_active |-> job_active, job_process_id |-> job_process_id,
                cmds |-> cmds]
       IN  IF latest_job_filepath # None
           THEN \E r \in StatusResults(latest_job_filepath) :
                  inflight' = [inflight EXCEPT ![w] =
                      Checked(get_job_status(r)[1], get_job_status(r)[2],
                              <<Cmd("status", latest_job_filepath, r)>>)]
           ELSE inflight' = [inflight EXCEPT ![w] = Checked(FALSE, -1, <<>>)]
    /\ UNCHANGED <<templates, instances, daemons, transcripts, resp, probe>>

\* StartAct under a lock held from the status check on: the status is the
\* one of the moment the worker acts
StartActLocked(w) ==
    /\ Ready
    /\ inflight[w] # Idle
    /\ LET job_name == inflight[w].job_name
           latest_job_filepath == get_latest_job_instance(job_name)
       IN  IF latest_job_filepath # None
           THEN \E r \in StatusResults(latest_job_filepath) :
                  StartFinish(job_name, inflight[w].json_params, latest_job_filepath,
                              get_job_status(r)[1], get_job_status(r)[2],
                              <<Cmd("status", latest_job_filepath, r)>>)
           ELSE StartFinish(job_name, inflight[w].json_params, latest_job_filepath,
                            FALSE, -1, <<>>)
    /\ inflight' = [inflight EXCEPT ![w] = Idle]
    /\ UNCHANGED <<templates, transcripts, probe>>

\* the rest of start_job_instance, on what the check found
StartAct(w) ==
    /\ Ready
    /\ inflight[w] # Idle
    /\ StartFinish(inflight[w].job_name, inflight[w].json_params,
                   inflight[w].latest_job_filepath, inflight[w].job_active,
                   inflight[w].job_process_id, inflight[w].cmds)
    /\ inflight' = [inflight EXCEPT ![w] = Idle]
    /\ UNCHANGED <<templates, transcripts, probe>>

NextRace ==
    \/ \E job_name \in RaceJobNames, data \in TemplateBodies : create_job(job_name, data)
    \/ \E w \in Workers, job_name \in RaceJobNames, params \in ParamInputs :
         StartCheck(w, job_name, params)
    \/ \E w \in Workers : StartAct(w)
    \/ \E path \in DOMAIN daemons : DaemonExits(path)
    \/ Reply

SpecRace == Init /\ [][NextRace]_vars

----------------------------------------------------------------------------
(* Two workers handling register requests at the same time: a handler's test
   for the template and what it does after it are separate steps *)

\* request.data of the concurrent registrations
RaceBodies == TemplateBodies \cup {<< <<"r">> >>}

\* create_job up to "if exists_job_template(job_name):": the worker has
\* tested whether the template file exists
RegisterCheck(w, job_name, data) ==
    /\ inflight[w] = Idle
    /\ inflight' = [inflight EXCEPT ![w] =
           [pc |-> "tested", job_name |-> job_name, data |-> data,
            exists |-> exists_job_template(job_name)]]
    /\ UNCHANGED <<templates, instances, daemons, transcripts, resp, probe>>

\* the rest of create_job, on what the test found
RegisterAct(w) ==
    /\ Ready
    /\ inflight[w] # Idle
    /\ LET job_name == inflight[w].job_name
       IN  IF inflight[w].exists
           THEN /\ resp' = [Response("register", job_name, None, 303, <<>>) EXCEPT
                               !.keys = {"message"}, !.link = <<job_name>>]
                /\ UNCHANGED templates
           ELSE /\ templates' = save_job_template(job_name, inflight[w].data)
                /\ resp' = [Response("register", job_name, None, 201, <<>>) EXCEPT
                               !.link = <<job_name>>]
    /\ inflight' = [inflight EXCEPT ![w] = Idle]
    /\ UNCHANGED <<instances, daemons, transcripts, probe>>

NextRegister ==
    \/ \E w \in Workers, job_name \in JobNames, data \in RaceBodies :
         RegisterCheck(w, job_name, data)
    \/ \E w \in Workers : RegisterAct(w)
    \/ Reply

SpecRegister == Init /\ [][NextRegister]_vars

----------------------------------------------------------------------------
(* get_job_status applied to the results a status command can return *)

\* the longest output of a status command, in tokens
MaxOutputLen == 4

ReturnCodes == {0, 1, 3}

OutputTokens == {"program running", "pid=", "4", "0", "daemon manager not running"}

StatusOutputs ==
    UNION {[1..n -> OutputTokens] : n \in 0..MaxOutputLen}

InitStatus ==
    /\ templates = [f \in {} |-> <<>>]
    /\ instances = [f \in {} |-> <<>>]
    /\ daemons = [p \in {} |-> 0]
    /\ transcripts = [p \in {} |-> 0]
    /\ resp = NoResponse
    /\ inflight = [w \in Workers |-> Idle]
    /\ \E return_code \in ReturnCodes, output \in StatusOutputs :
         probe = [fn |-> "get_job_status", input |-> CmdResult(return_code, output),
                  done |-> FALSE, output |-> <<>>]

ApplyStatus ==
    /\ probe.fn = "get_job_status"
    /\ ~probe.done
    /\ probe' = [probe EXCEPT !.done = TRUE, !.output = get_job_status(probe.input)]
    /\ UNCHANGED <<templates, instances, daemons, transcripts, resp, inflight>>

SpecStatus == InitStatus /\ [][ApplyStatus]_vars

----------------------------------------------------------------------------
(* get_last_lines applied to a transcript of any length, or to a missing one *)

\* the transcript read
TailPath == get_job_instance_logpath(<<"j">>, B2aHex([i \in 1..IdBytes |-> 0]))

\* the values of nr_lines
TailCounts == {1, NrLines}

InitTail ==
    /\ templates = [f \in {} |-> <<>>]
    /\ instances = [f \in {} |-> <<>>]
    /\ daemons = [p \in {} |-> 0]
    /\ \/ transcripts = [p \in {} |-> 0]
       \/ \E n \in 0..MaxLogLines : transcripts = [p \in {TailPath} |-> n]
    /\ resp = NoResponse
    /\ inflight = [w \in Workers |-> Idle]
    /\ \E nr_lines \in TailCounts :
         probe = [fn |-> "get_last_lines", input |-> <<TailPath, nr_lines>>,
                  done |-> FALSE, output |-> <<>>]

ApplyTail ==
    /\ probe.fn = "get_last_lines"
    /\ ~probe.done
    /\ probe' = [probe EXCEPT !.done = TRUE,
                               !.output = get_last_lines(probe.input[1], probe.input[2])]
    /\ UNCHANGED <<templates, instances, daemons, transcripts, resp, inflight>>

SpecTail == InitTail /\ [][ApplyTail]_vars

----------------------------------------------------------------------------
(* Start requests on an instance directory that holds any files: instances
   of both job names, a file without the instance extension, and an instance
   of a job name that contains neither *)

\* the file names the directory can hold at the start
DirNames ==
    LET id0 == B2aHex([i \in 1..IdBytes |-> 0])
        id1 == B2aHex([i \in 1..IdBytes |-> IF i = IdBytes THEN 1 ELSE 0])
    IN  {get_job_instance_filename(<<"j">>, id0),
         get_job_instance_filename(<<"j", "2">>, id0),
         get_job_instance_logname(<<"j">>, id1),
         get_job_instance_filename(<<"k">>, id1)}

\* the directories: any of the files, with modification times that differ
Directories ==
    UNION {{[f \in S |-> [mtime |-> m[f], content |-> <<>>]] :
               m \in {x \in [S -> 1..Cardinality(DirNames)] :
                         \A f, g \in S : f # g => x[f] # x[g]}} :
           S \in SUBSET DirNames}

InitLatest ==
    /\ \/ templates = [f \in {} |-> <<>>]
       \/ \E data \in TemplateBodies :
            templates = [f \in {get_job_template_filename(<<"j">>)} |-> data]
    /\ instances \in Directories
    /\ daemons = [p \in {} |-> 0]
    /\ transcripts = [p \in {} |-> 0]
    /\ resp = NoResponse
    /\ inflight = [w \in Workers |-> Idle]
    /\ probe = NoProbe

NextLatest ==
    \/ \E job_name \in JobNames, ct \in ContentTypes, params \in ParamInputs :
         start_job_instance(job_name, ct, params)
    \/ Reply

SpecLatest == InitLatest /\ [][NextLatest]_vars

----------------------------------------------------------------------------
(* Properties *)

\* the instances of a job name that are running at the supervisor
ActiveInstances(job_name) ==
    {job_id \in JobIds : get_job_instance_filepath(job_name, job_id) \in DOMAIN daemons}

\* C1: with requests handled one at a time, at most one instance of every job
\* name is active at the supervisor
C1_SingleFlight ==
    \A job_name \in JobNames : Cardinality(ActiveInstances(job_name)) <= 1

\* C2: a worker whose status check observed "not running" creates an instance
\* and issues its start command, whatever has been started since the check
C2_RaceStarts ==
    [][\A w \in Workers :
         (/\ inflight[w] # Idle
          /\ inflight'[w] = Idle
          /\ ~inflight[w].job_active
          /\ exists_job_template(inflight[w].job_name))
         => /\ Cardinality(DOMAIN instances') = Cardinality(DOMAIN instances) + 1
            /\ Len(resp'.cmds) > 0
            /\ resp'.cmds[Len(resp'.cmds)].cmd = "start"
            /\ resp'.cmds[Len(resp'.cmds)].path \notin
                 {PathJoin(AbsInstancesDir, f) : f \in DOMAIN instances}]_vars

\* C2 witness: both workers' starts went through, two instances of one job
\* name are active, and the last start had found no instance running
C2_TwoActive ==
    /\ \E job_name \in RaceJobNames : Cardinality(ActiveInstances(job_name)) >= 2
    /\ resp.op = "start"
    /\ resp.code = 201
    /\ \A i \in 1..Len(resp.cmds) :
         resp.cmds[i].cmd = "status" => resp.cmds[i].path \notin DOMAIN daemons

\* the file names of the instances created for a job name
InstancesOf(job_name) ==
    {get_job_instance_filename(job_name, job_id) : job_id \in JobIds} \cap DOMAIN instances

\* the entries with the greatest modification time among those whose key
\* contains the job name and carries the instance suffix
LatestEntries(job_name) ==
    {f \in MatchingInstances(job_name) :
        \A g \in MatchingInstances(job_name) : instances[g].mtime <= instances[f].mtime}

\* a start request with the JSON content type has just been handled
StartHandled == Ready /\ resp'.op = "start" /\ resp'.code # 415

HasCmd(r, cmd) == \E i \in 1..Len(r.cmds) : r.cmds[i].cmd = cmd

\* C3: a start request for a job name whose latest instance the supervisor
\* reports active creates no instance, issues no start command and answers
\* RUNNING with a link to the latest instance's id
C3_StartWhileRunning ==
    [][(/\ StartHandled
        /\ \E f \in LatestEntries(resp'.job_name) :
              PathJoin(AbsInstancesDir, f) \in DOMAIN daemons)
       => /\ instances' = instances
          /\ daemons' = daemons
          /\ ~HasCmd(resp', "start")
          /\ resp'.code = 303
          /\ resp'.status = "RUNNING"
          /\ \E f \in LatestEntries(resp'.job_name), n \in JobNames, job_id \in JobIds :
                /\ f = get_job_instance_filename(n, job_id)
                /\ resp'.link = <<resp'.job_name, job_id>>
                /\ resp'.pid = daemons[PathJoin(AbsInstancesDir, f)]]_vars

\* C3 witness: a start request was answered RUNNING
C3_AnsweredRunning ==
    resp.op = "start" /\ resp.code = 303 /\ resp.status = "RUNNING"

\* C4: a start request for a registered job name with no instance of its own
\* creates exactly one instance entry and runs exactly one supervisor command,
\* the start command; when a daemon was launched it answers STARTED with a
\* positive process id
C4_FirstStart ==
    [][(/\ StartHandled
        /\ get_job_template_filename(resp'.job_name) \in DOMAIN templates
        /\ InstancesOf(resp'.job_name) = {})
       => /\ Cardinality(DOMAIN instances' \ DOMAIN instances) = 1
          /\ Len(resp'.cmds) = 1
          /\ resp'.cmds[1].cmd = "start"
          /\ (daemons' # daemons => resp'.status = "STARTED" /\ resp'.pid > 0)]_vars

\* C5: a query for a job name without a registered template is answered 404,
\* whatever instances exist (stated for the case the claim names: the entries
\* whose key contains the name are the name's own instances, each rendered from
\* the template that has been deleted since)
C5_NoTemplate404 ==
    (/\ resp.op = "query"
     /\ get_job_template_filename(resp.job_name) \notin DOMAIN templates
     /\ MatchingInstances(resp.job_name) = InstancesOf(resp.job_name)
     /\ \A f \in InstancesOf(resp.job_name) : instances[f].content # <<>>)
    => resp.code = 404

\* C5, amended: a query for a job name without a registered template is
\* answered 404 exactly when no instance entry's key contains the name, and
\* otherwise 200 with the RUNNING or FINISHED status of the latest such entry
C5_NoTemplateQuery ==
    (/\ resp.op = "query"
     /\ get_job_template_filename(resp.job_name) \notin DOMAIN templates)
    => /\ resp.code = 404 <=> MatchingInstances(resp.job_name) = {}
       /\ MatchingInstances(resp.job_name) # {}
            => /\ resp.code = 200
               /\ \E f \in LatestEntries(resp.job_name) :
                     /\ Len(resp.cmds) = 1
                     /\ resp.cmds[1].cmd = "status"
                     /\ resp.cmds[1].path = PathJoin(AbsInstancesDir, f)
                     /\ resp.status = IF PathJoin(AbsInstancesDir, f) \in DOMAIN daemons
                                      THEN "RUNNING" ELSE "FINISHED"

\* C5 witness: a job name without a template, whose instance is still there,
\* was queried
C5_QueriedAfterDelete ==
    /\ resp.op = "query"
    /\ get_job_template_filename(resp.job_name) \notin DOMAIN templates
    /\ \E f \in InstancesOf(resp.job_name) : instances[f].content # <<>>
    /\ resp.code = 200

\* C6: a register request is answered 201 and stores the template exactly
\* when no template of that name exists, and 303 otherwise; a delete request
\* for an existing template removes it
C6_RegisterOnce ==
    [][LET f == get_job_template_filename(resp'.job_name)
       IN  /\ (Ready /\ resp'.op = "register")
                => IF f \in DOMAIN templates
                   THEN resp'.code = 303 /\ templates' = templates
                   ELSE resp'.code = 201 /\ f \in DOMAIN templates'
           /\ (Ready /\ resp'.op = "delete")
                => IF f \in DOMAIN templates
                   THEN resp'.code = 200 /\ f \notin DOMAIN templates'
                   ELSE resp'.code = 404 /\ templates' = templates]_vars

\* C6 witness: a second registration of a name was answered 303
C6_Conflict ==
    /\ resp.op = "register"
    /\ resp.code = 303
    /\ get_job_template_filename(resp.job_name) \in DOMAIN templates

\* C7: a stop request for an existing instance that is not running is answered
\* 403 FINISHED, runs no stop command and changes neither store
C7_StopFinished ==
    [][(/\ Ready
        /\ resp'.op = "stop"
        /\ get_job_instance_filename(resp'.job_name, resp'.job_id) \in DOMAIN instances
        /\ get_job_instance_filepath(resp'.job_name, resp'.job_id) \notin DOMAIN daemons)
       => /\ resp'.code = 403
          /\ resp'.status = "FINISHED"
          /\ ~HasCmd(resp', "stop")
          /\ templates' = templates
          /\ instances' = instances
          /\ daemons' = daemons]_vars

\* C7 witness: a stop request was rejected as already finished
C7_AlreadyFinished ==
    resp.op = "stop" /\ resp.code = 403 /\ HasCmd(resp, "status")

\* the start command of the last response did not launch a daemon
StartFailed(r) ==
    /\ r.op = "start"
    /\ HasCmd(r, "start")
    /\ r.cmds[Len(r.cmds)].path \notin DOMAIN daemons

\* C8: a start request whose start command fails yields the ERROR status
C8_StartFailureError ==
    StartFailed(resp) => resp.status = "ERROR"

\* C8, amended: a start request whose start command fails is answered 500
\* with the status FINISHED and a result that is not ok and carries the
\* command's exit code
C8_StartFailureFinished ==
    StartFailed(resp)
    => /\ resp.code = 500
       /\ resp.status = "FINISHED"
       /\ resp.keys = {"status", "result"}
       /\ ~resp.ok
       /\ resp.exit_code = resp.cmds[Len(resp.cmds)].result.return_code

\* C8 witness: a start command exited with a non-zero code
C8_StartExitedNonZero ==
    StartFailed(resp) /\ resp.exit_code # 0

\* a response that names a status, so that its instance id is known
InstanceKnown(r) ==
    r.op \in {"query", "query_id", "start", "stop"} /\ "status" \in r.keys

\* C9: every response of query, start and stop for a known instance carries
\* log lines, at most 100 of them
C9_TailEverywhere ==
    InstanceKnown(resp) => "log_lines" \in resp.keys /\ Len(resp.log_lines) <= 100

\* the last lines of a transcript of n lines, at most 100 of them: each line
\* is named by the byte offset it starts at
TailOf(n) ==
    LET m == IF n < 100 THEN n ELSE 100
    IN  [k \in 1..m |-> (n - m + k - 1) * LineLen]

\* the instance id a query response is about
QueriedIds(r) ==
    IF r.op = "query_id"
    THEN {r.job_id}
    ELSE {job_id \in JobIds :
            \E f \in LatestEntries(r.job_name), n \in JobNames :
                f = get_job_instance_filename(n, job_id)}

\* C9, amended: every query response for a known instance carries the last
\* lines, at most 100, of the transcript named by the request's job name and
\* the instance id; the responses of start and stop carry no log lines
C9_TailOnQuery ==
    InstanceKnown(resp)
    => IF resp.op \in {"query", "query_id"}
       THEN /\ "log_lines" \in resp.keys
            /\ Len(resp.log_lines) <= 100
            /\ \E job_id \in QueriedIds(resp) :
                 LET l == get_job_instance_logpath(resp.job_name, job_id)
                 IN  resp.log_lines =
                       TailOf(IF l \in DOMAIN transcripts THEN transcripts[l] ELSE 0)
       ELSE "log_lines" \notin resp.keys /\ resp.log_lines = <<>>

\* C9 witness: a query returned 100 lines of a transcript longer than that
C9_TailCut ==
    /\ InstanceKnown(resp)
    /\ resp.op = "query"
    /\ Len(resp.log_lines) = 100
    /\ \E l \in DOMAIN transcripts : transcripts[l] > 100

\* the outputs in which n is the number following the first "pid=" that a
\* digit follows: the digits after it, leading zeros aside, are n in decimal
PidIs(output, n) ==
    \E i \in 1..Len(output) :
        /\ output[i] = "pid="
        /\ \A j \in 1..(i - 1) :
              output[j] = "pid=" => ~IsDigit(output[j + 1])
        /\ \E e \in (i + 1)..Len(output) : \E z \in i..(e - 1) :
              /\ \A k \in (i + 1)..z : output[k] = "0"
              /\ SubSeq(output, z + 1, e) = FormatInt(n)
              /\ e < Len(output) => ~IsDigit(output[e + 1])

NoPid(output) ==
    \A i \in 1..Len(output) :
        output[i] = "pid=" => (i = Len(output) \/ ~IsDigit(output[i + 1]))

\* C10: get_job_status reports active exactly when the command succeeded and
\* its output has the "program running" marker; the process id is the number
\* after "pid=" when active and present, and -1 when inactive or absent
C10_StatusResult ==
    probe.done
    => LET r == probe.input
           active == r.return_code = 0
                     /\ \E i \in 1..Len(r.output) : r.output[i] = "program running"
       IN  /\ probe.output[1] = active
           /\ (~active \/ NoPid(r.output)) => probe.output[2] = -1
           /\ (active /\ ~NoPid(r.output))
                => probe.output[2] >= 0 /\ PidIs(r.output, probe.output[2])

\* C10 witness: the status of a running daemon whose output names process 40
C10_Pid40 ==
    /\ probe.done
    /\ probe.input.output = <<"program running", "pid=", "4", "0">>
    /\ probe.output = <<TRUE, 40>>

\* C11: a status command that exits with a non-zero code while its output
\* still has the "program running" marker is reported active
C11_NonZeroStillActive ==
    (/\ probe.done
     /\ probe.input.return_code # 0
     /\ \E i \in 1..Len(probe.input.output) : probe.input.output[i] = "program running")
    => probe.output[1] = TRUE

\* C11, amended: a status command that exits with a non-zero code is reported
\* inactive with process id -1, whether or not its output has the "program
\* running" marker
C11_NonZeroInactive ==
    (probe.done /\ probe.input.return_code # 0) => probe.output = <<FALSE, -1>>

\* C11 witness: exit code 1 with the marker and a process id in the output
C11_NonZeroWithMarker ==
    /\ probe.done
    /\ probe.input = CmdResult(1, <<"program running", "pid=", "4">>)
    /\ probe.output = <<FALSE, -1>>

\* the result of the last supervisor command a response's handler ran
LastResult(r) == r.cmds[Len(r.cmds)].result

\* the output of a command result has the marker
Marked(cmd_result, marker) ==
    \E i \in 1..Len(cmd_result.output) : cmd_result.output[i] = marker

\* C12: a start request that ran the start command is answered 201 STARTED
\* exactly when the command's return code is 0 and its output has the "daemon
\* process started" marker, and 500 in every other case
C12_StartedIff ==
    (resp.op = "start" /\ HasCmd(resp, "start"))
    => LET ok == /\ LastResult(resp).return_code = 0
                 /\ Marked(LastResult(resp), "daemon process started")
       IN  /\ resp.cmds[Len(resp.cmds)].cmd = "start"
           /\ ok => resp.code = 201 /\ resp.status = "STARTED"
           /\ ~ok => resp.code = 500 /\ resp.status # "STARTED"

\* C12 witness: the start command exited with code 0 without the marker and
\* the request was answered 500
C12_SuccessWithoutMarker ==
    /\ resp.op = "start"
    /\ HasCmd(resp, "start")
    /\ LastResult(resp).return_code = 0
    /\ ~Marked(LastResult(resp), "daemon process started")
    /\ resp.code = 500

\* C13: a stop request for an unknown instance is answered 404 without any
\* supervisor command; for an existing instance that is not running, 403
\* "already finished" after the status command alone; for a running one, the
\* status command and then exactly one stop command, answered 200 FINISHED
\* with ok when the stop command returned 0 with the "daemon process stopped"
\* marker, and 500 ERROR without ok otherwise
C13_StopOrder ==
    [][(Ready /\ resp'.op = "stop")
       => LET f == get_job_instance_filename(resp'.job_name, resp'.job_id)
              path == PathJoin(AbsInstancesDir, f)
              r == resp'
          IN  IF f \notin DOMAIN instances
              THEN r.code = 404 /\ r.cmds = <<>> /\ daemons' = daemons
              ELSE IF path \notin DOMAIN daemons
              THEN /\ r.code = 403
                   /\ r.status = "FINISHED"
                   /\ Len(r.cmds) = 1
                   /\ r.cmds[1].cmd = "status" /\ r.cmds[1].path = path
                   /\ daemons' = daemons
              ELSE /\ Len(r.cmds) = 2
                   /\ r.cmds[1].cmd = "status" /\ r.cmds[1].path = path
                   /\ r.cmds[2].cmd = "stop" /\ r.cmds[2].path = path
                   /\ IF /\ LastResult(r).return_code = 0
                         /\ Marked(LastResult(r), "daemon process stopped")
                      THEN r.code = 200 /\ r.status = "FINISHED" /\ r.ok
                      ELSE r.code = 500 /\ r.status = "ERROR" /\ ~r.ok]_vars

\* C13 witness: the stop command of a running instance returned 0 without the
\* "daemon process stopped" marker and the request was answered ERROR
C13_StopWithoutMarker ==
    /\ resp.op = "stop"
    /\ Len(resp.cmds) = 2
    /\ LastResult(resp).return_code = 0
    /\ ~Marked(LastResult(resp), "daemon process stopped")
    /\ resp.code = 500
    /\ resp.status = "ERROR"

\* C14: a start request for a job name without a registered template (and
\* without any instance entry whose key contains the name) is answered 404,
\* leaves the instance store as it was and runs no start command
C14_StartWithoutTemplate ==
    [][(/\ StartHandled
        /\ get_job_template_filename(resp'.job_name) \notin DOMAIN templates
        /\ MatchingInstances(resp'.job_name) = {})
       => /\ resp'.code = 404
          /\ instances' = instances
          /\ ~HasCmd(resp', "start")]_vars

\* C15: with register requests handled at the same time, a register request
\* is answered 201 only when no template of that name is stored, and one
\* answered 303 leaves the stored content as it is: of the requests for one
\* name exactly one is answered 201, and its content is the one stored
C15_CreateIfAbsent ==
    [][(Ready /\ resp'.op = "register")
       => IF get_job_template_filename(resp'.job_name) \in DOMAIN templates
          THEN resp'.code = 303 /\ templates' = templates
          ELSE resp'.code = 201]_vars

\* C16: when a start request has been answered with the failure response and
\* its start command launched nothing, sending the response leaves the stores
\* and the supervisor as the start left them; in them the latest instance of
\* the job name is the one that request created, and a query for the job name
\* asks the supervisor about that instance and answers FINISHED, not RUNNING
C16_NoRunningAfterFailure ==
    [][(StartFailed(resp) /\ resp.code = 500 /\ resp' = NoResponse)
       => LET created == resp.cmds[Len(resp.cmds)].path
              job_name == resp.job_name
          IN  /\ UNCHANGED <<templates, instances, daemons, transcripts>>
              /\ \E f \in LatestEntries(job_name) :
                    /\ PathJoin(AbsInstancesDir, f) = created
                    /\ f \in InstancesOf(job_name)
              /\ QueryResponses(job_name) # {}
              /\ \A q \in QueryResponses(job_name) :
                    /\ q.code = 200
                    /\ q.status = "FINISHED"
                    /\ q.cmds[1].cmd = "status"
                    /\ q.cmds[1].path = created]_vars

\* C16 witness: a start was answered with the failure response while an
\* older instance of the same job name exists
C16_FailedAfterEarlier ==
    /\ StartFailed(resp)
    /\ resp.code = 500
    /\ Cardinality(InstancesOf(resp.job_name)) >= 2

\* C17: get_last_lines on an existing file returns the last nr_lines lines of
\* the window of 4 KiB at the end of the file (fewer than nr_lines, or a cut
\* first line, when the last nr_lines lines do not fit in it), and the empty
\* sequence on a missing file
C17_TailWindow ==
    probe.done
    => LET filepath == probe.input[1]
           nr_lines == probe.input[2]
       IN  IF filepath \notin DOMAIN transcripts
           THEN probe.output = <<>>
           ELSE LET file_size == transcripts[filepath] * LineLen
                    window == ReadLinesFrom(filepath, Max(file_size - TailWindow, 0))
                IN  /\ probe.output = LastLines(window, nr_lines)
                    /\ nr_lines * LineLen > TailWindow /\ file_size > TailWindow
                         => Len(probe.output) < nr_lines

C19_Isolation ==
    [][\A job_name \in JobNames :
         (/\ Ready
          /\ resp'.op # "none"
          /\ resp'.job_name # job_name
          /\ \A f \in DOMAIN instances' : instances'[f].content # <<>>)
         => LatestEntries(job_name)' = LatestEntries(job_name)]_vars

\* the entries with the instance suffix whose key, the file name without the
\* suffix, contains the job name
SuffixedWithName(job_name) ==
    {f \in DOMAIN instances :
        /\ Len(f) >= 5
        /\ SubSeq(f, Len(f) - 4, Len(f)) = <<".", "c", "o", "n", "f">>
        /\ \E i \in 1..(Len(f) - 5) :
              /\ i + Len(job_name) - 1 <= Len(f) - 5
              /\ SubSeq(f, i, i + Len(job_name) - 1) = job_name}

\* C20: get_latest_job_instance returns None exactly when no entry has the
\* instance suffix and a key containing the job name, and otherwise the path
\* of the entry with the greatest modification time among exactly those; after
\* a start request that created an instance it is the path of that instance
C20_LatestInstance ==
    /\ \A job_name \in JobNames :
         IF SuffixedWithName(job_name) = {}
         THEN get_latest_job_instance(job_name) = None
         ELSE \E f \in SuffixedWithName(job_name) :
                /\ get_latest_job_instance(job_name) = AbsInstancesDir \o <<"/">> \o f
                /\ \A g \in SuffixedWithName(job_name) :
                      instances[g].mtime <= instances[f].mtime
    /\ (resp.op = "start" /\ HasCmd(resp, "start"))
         => get_latest_job_instance(resp.job_name) = resp.cmds[Len(resp.cmds)].path

\* C20 witness: a start created an instance in a directory that also holds a
\* file without the instance suffix and an instance of a name not containing
\* the job name
C20_NewestAmongOthers ==
    /\ resp.op = "start"
    /\ HasCmd(resp, "start")
    /\ \E f \in DOMAIN instances : f \notin SuffixedWithName(resp.job_name)
                                     /\ SplitExt(f)[2] = DotLog
    /\ \E f \in DOMAIN instances : f \notin SuffixedWithName(resp.job_name)
                                     /\ SplitExt(f)[2] = DotConf
    /\ Cardinality(SuffixedWithName(resp.job_name)) >= 2

====
